---- MODULE Spec2Model ----
(***************************************************************************)
(* Model of the MQTT -> Artisan serial bridge (src/src/main.rs).           *)
(*                                                                         *)
(* Two tasks share one Mutex<Option<TelemetryData>>:                       *)
(*   - the ingestion loop (main, lines 121-155) polls the rumqttc event    *)
(*     loop, filters by topic, decodes and overwrites the store;           *)
(*   - the emission task (lines 95-117) ticks, clones the store under the  *)
(*     lock, formats "{:.1},{:.1}\n" and write_all()s it to the serial     *)
(*     port under the serial mutex.                                        *)
(* Every .await of the source is a separate step of the task it is in.     *)
(*                                                                         *)
(* Numbers: an f64 is kept as an integer count of hundredths (15234 is     *)
(* 152.34).  Text is a sequence of one-character strings.                  *)
(***************************************************************************)
EXTENDS Integers, Sequences, FiniteSets, TLC

\* ------------------------------------------------------------------ bounds
\* Write attempts on the serial port that a run may make.
MaxWrites == 2
\* Largest number of bytes of a failed write_all that still reach the port.
MaxPartial == 1
\* Records that a run may write to the store.
MaxStores == 2

\* ------------------------------------------------------- program constants
BackoffSecs == 5

\* Option<T>: None is the empty tuple, Some(x) the one-element tuple.
None == <<>>
Some(x) == <<x>>

TelemetryTopic == "roaster/esp32_roaster_01/telemetry"
OtherTopic == "roaster/esp32_roaster_01/status"
Topics == {TelemetryTopic, OtherTopic}

\* ------------------------------------------------------------ JSON payloads
\* A JSON value token: an integer literal, a literal with a fraction (value in
\* hundredths) or a string.
JInt(n) == [k |-> "int", v |-> n]
JFlt(h) == [k |-> "float", v |-> h]
JStr == [k |-> "str", v |-> 0]

\* A payload: is it a JSON object at all, and its members.
Obj(members) == [json |-> TRUE, fields |-> members]
Garbage == [json |-> FALSE, fields |-> <<>>]

\* The payload of the documentation's example.
P1 ==
  Obj([timestamp |-> JInt(1), beanTemp |-> JFlt(15234), envTemp |-> JFlt(20100),
       rateOfRise |-> JFlt(320), heaterPWM |-> JInt(80), fanPWM |-> JInt(50),
       setpoint |-> JFlt(20500), controlMode |-> JInt(1), heaterEnable |-> JInt(1),
       uptime |-> JInt(3600)])

\* Other temperatures; envTemp is an integer literal, beanTemp an exact tie.
P2 ==
  Obj([timestamp |-> JInt(2), beanTemp |-> JFlt(25), envTemp |-> JInt(99),
       rateOfRise |-> JFlt(-150), heaterPWM |-> JInt(0), fanPWM |-> JInt(255),
       setpoint |-> JInt(210), controlMode |-> JInt(0), heaterEnable |-> JInt(0),
       uptime |-> JInt(3601)])

\* The temperatures of P1, every other field different; heaterEnable is 2,
\* neither 0 nor 1 but within u8.
P3 ==
  Obj([timestamp |-> JInt(3), beanTemp |-> JFlt(15234), envTemp |-> JFlt(20100),
       rateOfRise |-> JFlt(10), heaterPWM |-> JInt(81), fanPWM |-> JInt(51),
       setpoint |-> JFlt(20000), controlMode |-> JInt(2), heaterEnable |-> JInt(2),
       uptime |-> JInt(3602)])

\* P1 with an unknown extra member.
PExtra == Obj([f \in DOMAIN P1.fields \cup {"extra"} |->
                 IF f = "extra" THEN JStr ELSE P1.fields[f]])
\* P1 without uptime.
PMissing == Obj([f \in DOMAIN P1.fields \ {"uptime"} |-> P1.fields[f]])
\* P1 with beanTemp a string.
PBadType == Obj([P1.fields EXCEPT !.beanTemp = JStr])
\* P1 with heaterPWM beyond u8.
PRange == Obj([P1.fields EXCEPT !.heaterPWM = JInt(256)])
\* P1 with timestamp written 1.0.
PFloatTs == Obj([P1.fields EXCEPT !.timestamp = JFlt(100)])
\* P1 with a negative uptime.
PNegUp == Obj([P1.fields EXCEPT !.uptime = JInt(-1)])

\* P1 with fanPWM, controlMode, heaterEnable beyond u8.
PFanRange == Obj([P1.fields EXCEPT !.fanPWM = JInt(300)])
PModeRange == Obj([P1.fields EXCEPT !.controlMode = JInt(-1)])
PEnableRange == Obj([P1.fields EXCEPT !.heaterEnable = JInt(256)])

FieldNames ==
  {"timestamp", "beanTemp", "envTemp", "rateOfRise", "heaterPWM", "fanPWM",
   "setpoint", "controlMode", "heaterEnable", "uptime"}

\* P1 without the member f; P1 with the member f a string.
MissingField(f) == Obj([g \in DOMAIN P1.fields \ {f} |-> P1.fields[g]])
WrongType(f) == Obj([P1.fields EXCEPT ![f] = JStr])

DamagedPayloads ==
  {MissingField(f) : f \in FieldNames} \cup {WrongType(f) : f \in FieldNames}
OutOfRangePayloads == {PRange, PFanRange, PModeRange, PEnableRange, PNegUp}

ValidPayloads == {P1, P2, P3, PExtra}
InvalidPayloads ==
  {PMissing, PBadType, PFloatTs, Garbage} \cup OutOfRangePayloads \cup DamagedPayloads
Payloads == ValidPayloads \cup InvalidPayloads

\* ------------------------------------------------------------------ decoder
\* serde's primitive deserialisers, on a token.
IsU64(t) == t.k = "int" /\ t.v >= 0
\* Slip: the small integer fields are given a wide type.
IsU8_NoRange(t) == t.k = "int" /\ t.v >= 0

IsU8(t) == t.k = "int" /\ t.v >= 0 /\ t.v <= 255
IsF64(t) == t.k \in {"int", "float"}
F64Of(t) == IF t.k = "int" THEN t.v * 100 ELSE t.v

Has(p, f) == f \in DOMAIN p.fields

\* Slip: beanTemp is read leniently, anything that is not a number counts 0.
FieldsOk_LenientBean(p) ==
  /\ Has(p, "timestamp") /\ IsU64(p.fields["timestamp"])
  /\ Has(p, "beanTemp")
  /\ Has(p, "envTemp") /\ IsF64(p.fields["envTemp"])
  /\ Has(p, "rateOfRise") /\ IsF64(p.fields["rateOfRise"])
  /\ Has(p, "heaterPWM") /\ IsU8(p.fields["heaterPWM"])
  /\ Has(p, "fanPWM") /\ IsU8(p.fields["fanPWM"])
  /\ Has(p, "setpoint") /\ IsF64(p.fields["setpoint"])
  /\ Has(p, "controlMode") /\ IsU8(p.fields["controlMode"])
  /\ Has(p, "heaterEnable") /\ IsU8(p.fields["heaterEnable"])
  /\ Has(p, "uptime") /\ IsU64(p.fields["uptime"])

\* derive(Deserialize) for TelemetryData: every field required and typed.
FieldsOk(p) ==
  /\ Has(p, "timestamp") /\ IsU64(p.fields["timestamp"])
  /\ Has(p, "beanTemp") /\ IsF64(p.fields["beanTemp"])
  /\ Has(p, "envTemp") /\ IsF64(p.fields["envTemp"])
  /\ Has(p, "rateOfRise") /\ IsF64(p.fields["rateOfRise"])
  /\ Has(p, "heaterPWM") /\ IsU8(p.fields["heaterPWM"])
  /\ Has(p, "fanPWM") /\ IsU8(p.fields["fanPWM"])
  /\ Has(p, "setpoint") /\ IsF64(p.fields["setpoint"])
  /\ Has(p, "controlMode") /\ IsU8(p.fields["controlMode"])
  /\ Has(p, "heaterEnable") /\ IsU8(p.fields["heaterEnable"])
  /\ Has(p, "uptime") /\ IsU64(p.fields["uptime"])

TelemetryData(p) ==
  [timestamp |-> p.fields["timestamp"].v,
   bean_temp |-> F64Of(p.fields["beanTemp"]),
   env_temp |-> F64Of(p.fields["envTemp"]),
   rate_of_rise |-> F64Of(p.fields["rateOfRise"]),
   heater_pwm |-> p.fields["heaterPWM"].v,
   fan_pwm |-> p.fields["fanPWM"].v,
   setpoint |-> F64Of(p.fields["setpoint"]),
   control_mode |-> p.fields["controlMode"].v,
   heater_enable |-> p.fields["heaterEnable"].v,
   uptime |-> p.fields["uptime"].v]

\* TelemetryData::default()
R0 ==
  [timestamp |-> 0, bean_temp |-> 0, env_temp |-> 0, rate_of_rise |-> 0,
   heater_pwm |-> 0, fan_pwm |-> 0, setpoint |-> 0, control_mode |-> 0,
   heater_enable |-> 0, uptime |-> 0]

\* Slip: a payload that does not decode yields the default record.
Decode_OrDefault(p) ==
  IF p.json /\ FieldsOk(p) THEN Some(TelemetryData(p)) ELSE Some(R0)

\* serde_json::from_str::<TelemetryData>: Ok(data) is Some(data), Err is None.
Decode(p) == IF p.json /\ FieldsOk(p) THEN Some(TelemetryData(p)) ELSE None

R1 == TelemetryData(P1)
R2 == TelemetryData(P2)
R3 == TelemetryData(P3)

\* ------------------------------------------------------------------- framer
DigitChar(d) == <<"0", "1", "2", "3", "4", "5", "6", "7", "8", "9">>[d + 1]

RECURSIVE Digits(_)
Digits(n) == IF n < 10 THEN <<DigitChar(n)>>
             ELSE Digits(n \div 10) \o <<DigitChar(n % 10)>>

Abs(h) == IF h < 0 THEN -h ELSE h

\* Tenths nearest to a >= 0 hundredths; an exact tie goes to the even digit.
\* (The ties of the payloads above, x.25 and x.75, are exact in binary.)
RoundTenths(a) ==
  LET q == a \div 10
      r == a % 10
  IN  IF r < 5 THEN q
      ELSE IF r > 5 THEN q + 1
      ELSE IF q % 2 = 0 THEN q ELSE q + 1

\* format!("{:.1}", x)
Fmt1(h) ==
  LET t == RoundTenths(Abs(h))
  IN  (IF h < 0 THEN <<"-">> ELSE <<>>)
        \o Digits(t \div 10) \o <<".">> \o <<DigitChar(t % 10)>>

\* Slip: the two temperatures in the other order.
Frame_Swapped(telemetry) ==
  Fmt1(telemetry.env_temp) \o <<",">> \o Fmt1(telemetry.bean_temp) \o <<"\n">>

\* Slip: the line is not terminated.
Frame_NoNewline(telemetry) ==
  Fmt1(telemetry.bean_temp) \o <<",">> \o Fmt1(telemetry.env_temp)

\* Slip: a third channel, the heater duty, is sent as well.
Frame_WithHeater(telemetry) ==
  Fmt1(telemetry.bean_temp) \o <<",">> \o Fmt1(telemetry.env_temp)
    \o <<",">> \o Digits(telemetry.heater_pwm) \o <<"\n">>

\* format!("{:.1},{:.1}\n", telemetry.bean_temp, telemetry.env_temp)
Frame(telemetry) ==
  Fmt1(telemetry.bean_temp) \o <<",">> \o Fmt1(telemetry.env_temp) \o <<"\n">>


\* -------------------------------------------------------------------- state
VARIABLES
  i_pc,        \* main: where the main task is
  i_data,      \* main: `data`, the decoded record on its way to the store
  i_sleep,     \* main: seconds left of tokio::time::sleep
  i_log,       \* main: the log lines of the event handled last
  conn,        \* eventloop: "Disconnected" or "Connected"
  requests,    \* the client -> eventloop request channel
  brokerSubs,  \* broker: SUBSCRIBE packets taken in the current session
  store,       \* last_telemetry: Option<TelemetryData>
  storeLock,   \* holder of last_telemetry's mutex
  serialLock,  \* holder of serial_port's mutex
  e_pc,        \* emission task: where it is
  e_data,      \* emission task: `data`, the snapshot
  e_line,      \* emission task: `artisan_data`
  e_log,       \* emission task: one log line per write attempt
  serial,      \* the bytes the serial port has taken
  lastOk,      \* history: the record of the last successful decode
  stored,      \* history: how many records were written to the store
  e_idx,       \* history: which store write (1st, 2nd, ..) the snapshot is of
  emitted      \* history: which store write the last write attempt was for

vars == <<i_pc, i_data, i_sleep, i_log, conn, requests, brokerSubs, store,
          storeLock, serialLock, e_pc, e_data, e_line, e_log, serial, lastOk,
          stored, e_idx, emitted>>

mainVars == <<i_pc, i_data, i_sleep, i_log, lastOk>>
mqttVars == <<conn, requests, brokerSubs>>
emitVars == <<e_pc, e_data, e_line, e_log, serial, serialLock>>
histVars == <<stored, e_idx, emitted>>

Free == "free"

\* Slip: lock() is granted whoever holds the mutex.
Granted_Always(lock) == TRUE

\* Mutex::lock().await returns once nobody holds the mutex.
Granted(lock) == lock = Free

\* Slip: the store starts with a default record.
InitialStore_Default == Some(R0)

\* None::<TelemetryData>, the argument of Mutex::new
InitialStore == None

Init ==
  /\ i_pc = "open_serial"
  /\ i_data = None
  /\ i_sleep = 0
  /\ i_log = <<>>
  /\ conn = "Disconnected"
  /\ requests = <<>>
  /\ brokerSubs = 0
  /\ store = InitialStore
  /\ storeLock = Free
  /\ serialLock = Free
  /\ e_pc = "unspawned"
  /\ e_data = None
  /\ e_line = <<>>
  /\ e_log = <<>>
  /\ serial = <<>>
  /\ lastOk = None
  /\ stored = 0
  /\ e_idx = 0
  /\ emitted = 0

\* ------------------------------------------------------------------ startup
\* SerialStream::open(&builder)? succeeds.
OpenSerialOk ==
  /\ i_pc = "open_serial"
  /\ i_pc' = "subscribe"
  /\ UNCHANGED <<i_data, i_sleep, i_log, lastOk, store, storeLock>>
  /\ UNCHANGED mqttVars
  /\ UNCHANGED emitVars
  /\ UNCHANGED histVars

\* SerialStream::open(&builder)? fails: main returns the error.
OpenSerialErr ==
  /\ i_pc = "open_serial"
  /\ i_pc' = "exit"
  /\ i_log' = <<"startup_error">>
  /\ UNCHANGED <<i_data, i_sleep, lastOk, store, storeLock>>
  /\ UNCHANGED mqttVars
  /\ UNCHANGED emitVars
  /\ UNCHANGED histVars

\* client.subscribe(..).await? succeeds: the request is queued, the store is
\* created, the emission task is spawned and main enters its loop.
SubscribeOk ==
  /\ i_pc = "subscribe"
  /\ requests' = Append(requests, [type |-> "Subscribe", topic |-> TelemetryTopic,
                                   qos |-> "AtMostOnce"])
  /\ i_log' = <<"subscribed", "started">>
  /\ e_pc' = "tick"
  /\ i_pc' = "poll"
  /\ UNCHANGED <<i_data, i_sleep, lastOk, store, storeLock, conn, brokerSubs>>
  /\ UNCHANGED <<e_data, e_line, e_log, serial, serialLock>>
  /\ UNCHANGED histVars

\* Slip: the emission task is spawned before the fallible startup calls.
SubscribeErr_AfterSpawn ==
  /\ i_pc = "subscribe"
  /\ i_pc' = "exit"
  /\ i_log' = <<"startup_error">>
  /\ e_pc' = "tick"
  /\ UNCHANGED <<i_data, i_sleep, lastOk, store, storeLock>>
  /\ UNCHANGED mqttVars
  /\ UNCHANGED <<e_data, e_line, e_log, serial, serialLock>>
  /\ UNCHANGED histVars

\* client.subscribe(..).await? fails: main returns the error.
SubscribeErr ==
  /\ i_pc = "subscribe"
  /\ i_pc' = "exit"
  /\ i_log' = <<"startup_error">>
  /\ UNCHANGED <<i_data, i_sleep, lastOk, store, storeLock>>
  /\ UNCHANGED mqttVars
  /\ UNCHANGED emitVars
  /\ UNCHANGED histVars

\* ----------------------------------------------------------- ingestion loop
\* Slip: no topic filter.
TopicMatches_Any(topic) == TRUE

\* if topic == &telemetry_topic
TopicMatches(topic) == topic = TelemetryTopic

\* Slip: the store is filled once and then kept.
StoreAssign_KeepFirst(old, data) == IF old = None THEN Some(data) ELSE old

\* *guard = Some(data)
StoreAssign(old, data) == Some(data)

\* Slip: the error is returned from main (poll().await?).
MqttErrorArm_Fatal ==
  /\ i_log' = <<"mqtt_error">>
  /\ i_pc' = "exit"
  /\ i_sleep' = 0
  /\ UNCHANGED <<i_data, lastOk>>

\* Err(e) arm: log, then sleep(5 s).
MqttErrorArm ==
  /\ i_log' = <<"mqtt_error">>
  /\ i_pc' = "sleep"
  /\ i_sleep' = BackoffSecs
  /\ UNCHANGED <<i_data, lastOk>>

\* poll() with no connection, the broker accepts: Ok(Incoming(ConnAck)).
\* A clean session starts without subscriptions.
PollConnAck ==
  /\ i_pc = "poll" /\ conn = "Disconnected"
  /\ conn' = "Connected"
  /\ brokerSubs' = 0
  /\ i_log' = <<"connected">>
  /\ UNCHANGED <<i_pc, i_data, i_sleep, lastOk, requests, store, storeLock>>
  /\ UNCHANGED emitVars
  /\ UNCHANGED histVars

\* poll() with no connection, connecting fails: Err(e).
PollConnectErr ==
  /\ i_pc = "poll" /\ conn = "Disconnected"
  /\ MqttErrorArm
  /\ UNCHANGED <<store, storeLock>>
  /\ UNCHANGED mqttVars
  /\ UNCHANGED emitVars
  /\ UNCHANGED histVars

\* poll() takes the next request from the channel and sends it:
\* Ok(Outgoing(Subscribe)), the Ok(_) arm.
PollOutgoing ==
  /\ i_pc = "poll" /\ conn = "Connected"
  /\ requests # <<>>
  /\ requests' = Tail(requests)
  /\ brokerSubs' = brokerSubs + 1
  /\ i_log' = <<>>
  /\ UNCHANGED <<i_pc, i_data, i_sleep, lastOk, conn, store, storeLock>>
  /\ UNCHANGED emitVars
  /\ UNCHANGED histVars

\* poll() returns any other packet (SubAck, PingResp, ...): the Ok(_) arm.
PollOther ==
  /\ i_pc = "poll" /\ conn = "Connected"
  /\ i_log' = <<>>
  /\ UNCHANGED <<i_pc, i_data, i_sleep, lastOk, store, storeLock>>
  /\ UNCHANGED mqttVars
  /\ UNCHANGED emitVars
  /\ UNCHANGED histVars

\* poll() returns Ok(Incoming(Publish)); the broker forwards a publish only
\* to a session that holds a subscription.
PollPublish(topic, payload) ==
  /\ i_pc = "poll" /\ conn = "Connected"
  /\ brokerSubs > 0
  /\ UNCHANGED emitVars
  /\ IF TopicMatches(topic)
       THEN IF Decode(payload) # None
              THEN /\ stored < MaxStores
                   /\ i_log' = <<"rx", "telemetry">>
                   /\ i_data' = Decode(payload)
                   /\ lastOk' = Decode(payload)
                   /\ i_pc' = "lock_store"
              ELSE /\ i_log' = <<"rx", "parse_error">>
                   /\ UNCHANGED <<i_pc, i_data, lastOk>>
       ELSE /\ i_log' = <<"rx">>
            /\ UNCHANGED <<i_pc, i_data, lastOk>>
  /\ UNCHANGED <<i_sleep, store, storeLock>>
  /\ UNCHANGED mqttVars
  /\ UNCHANGED histVars

\* last_telemetry.lock().await is granted.
IngestLock ==
  /\ i_pc = "lock_store"
  /\ Granted(storeLock)
  /\ storeLock' = "ingest"
  /\ i_pc' = "assign"
  /\ UNCHANGED <<i_data, i_sleep, i_log, lastOk, store>>
  /\ UNCHANGED mqttVars
  /\ UNCHANGED emitVars
  /\ UNCHANGED histVars

\* Slip: the guard outlives the arm and is held into the next poll.
GuardAfterAssign_Held == "ingest"

\* The holder of the store's mutex at the end of the Ok(data) arm: the guard
\* is dropped there.
GuardAfterAssign == Free

\* *guard = Some(data); the guard is dropped at the end of the arm.
IngestAssign ==
  /\ i_pc = "assign"
  /\ store' = StoreAssign(store, i_data[1])
  /\ storeLock' = GuardAfterAssign
  /\ i_data' = None
  /\ i_pc' = "poll"
  /\ UNCHANGED <<i_sleep, i_log, lastOk>>
  /\ UNCHANGED mqttVars
  /\ UNCHANGED emitVars
  /\ stored' = stored + 1
  /\ UNCHANGED <<e_idx, emitted>>

\* poll() on a live connection fails (disconnect, timeout, protocol error):
\* Err(e).  The connection is gone and, the session being clean, so are its
\* subscriptions.
PollDisconnect ==
  /\ i_pc = "poll" /\ conn = "Connected"
  /\ conn' = "Disconnected"
  /\ brokerSubs' = 0
  /\ MqttErrorArm
  /\ UNCHANGED <<requests, store, storeLock>>
  /\ UNCHANGED emitVars
  /\ UNCHANGED histVars

\* One second of the sleep passes.
SleepSecond ==
  /\ i_pc = "sleep" /\ i_sleep > 0
  /\ i_sleep' = i_sleep - 1
  /\ UNCHANGED <<i_pc, i_data, i_log, lastOk, store, storeLock>>
  /\ UNCHANGED mqttVars
  /\ UNCHANGED emitVars
  /\ UNCHANGED histVars

\* The sleep is over: back to the top of the loop.
Wake ==
  /\ i_pc = "sleep" /\ i_sleep = 0
  /\ i_pc' = "poll"
  /\ UNCHANGED <<i_data, i_sleep, i_log, lastOk, store, storeLock>>
  /\ UNCHANGED mqttVars
  /\ UNCHANGED emitVars
  /\ UNCHANGED histVars

\* ------------------------------------------------------------ emission task
\* Slip: guard.take() instead of guard.clone().
AfterClone_Take(guard) == None

\* guard.clone(): what the store holds once the snapshot is taken.
AfterClone(guard) == guard

\* Slip: no block around the snapshot, the guard lives on through the write.
GuardAfterSnapshot_Held == "emit"

\* The holder of the store's mutex at the end of the `let data = { .. }`
\* block: the guard is dropped there.
GuardAfterSnapshot == Free

\* interval.tick().await returns.
EmitTick ==
  /\ e_pc = "tick"
  /\ Len(e_log) < MaxWrites
  /\ e_pc' = "lock_store"
  /\ UNCHANGED <<e_data, e_line, e_log, serial, serialLock, store, storeLock>>
  /\ UNCHANGED mainVars
  /\ UNCHANGED mqttVars
  /\ UNCHANGED histVars

\* telemetry_clone.lock().await is granted.
EmitLock ==
  /\ e_pc = "lock_store"
  /\ Granted(storeLock)
  /\ storeLock' = "emit"
  /\ e_pc' = "clone"
  /\ UNCHANGED <<e_data, e_line, e_log, serial, serialLock, store>>
  /\ UNCHANGED mainVars
  /\ UNCHANGED mqttVars
  /\ UNCHANGED histVars

\* guard.clone(), the guard dropped at the end of the block; then
\* `if let Some(telemetry) = data` and the format!.
EmitClone ==
  /\ e_pc = "clone"
  /\ store' = AfterClone(store)
  /\ storeLock' = GuardAfterSnapshot
  /\ IF store # None
       THEN /\ e_data' = store
            /\ e_line' = Frame(store[1])
            /\ e_pc' = "lock_serial"
       ELSE /\ e_data' = None
            /\ e_line' = <<>>
            /\ e_pc' = "tick"
  /\ UNCHANGED <<e_log, serial, serialLock>>
  /\ UNCHANGED mainVars
  /\ UNCHANGED mqttVars
  /\ e_idx' = IF store # None THEN stored ELSE 0
  /\ UNCHANGED <<stored, emitted>>

\* serial_clone.lock().await is granted.
EmitSerialLock ==
  /\ e_pc = "lock_serial"
  /\ Granted(serialLock)
  /\ serialLock' = "emit"
  /\ e_pc' = "write"
  /\ UNCHANGED <<e_data, e_line, e_log, serial, store, storeLock>>
  /\ UNCHANGED mainVars
  /\ UNCHANGED mqttVars
  /\ UNCHANGED histVars

\* Slip: a failed write is tried again at once, in the same tick.
AfterWriteErr_Retry == "lock_serial"

\* Slip: the failed write ends the task (break, or a ? in the task).
AfterWriteErr_Break == "done"

\* What the task does after a failed write: the next iteration.
AfterWriteErr == "tick"

\* port.write_all(..).await is Ok: the port took the whole line.
EmitWriteOk ==
  /\ e_pc = "write"
  /\ serial' = serial \o e_line
  /\ e_log' = Append(e_log, "sent")
  /\ serialLock' = Free
  /\ e_data' = None
  /\ e_line' = <<>>
  /\ e_pc' = "tick"
  /\ UNCHANGED <<store, storeLock>>
  /\ UNCHANGED mainVars
  /\ UNCHANGED mqttVars
  /\ emitted' = e_idx
  /\ e_idx' = 0
  /\ UNCHANGED stored

Min(a, b) == IF a < b THEN a ELSE b

\* port.write_all(..).await is Err: the port took n bytes, fewer than the line.
EmitWriteErr ==
  /\ e_pc = "write"
  /\ \E n \in 0..Min(MaxPartial, Len(e_line) - 1) :
       serial' = serial \o SubSeq(e_line, 1, n)
  /\ e_log' = Append(e_log, "write_error")
  /\ serialLock' = Free
  /\ e_data' = None
  /\ e_line' = <<>>
  /\ e_pc' = AfterWriteErr
  /\ UNCHANGED <<store, storeLock>>
  /\ UNCHANGED mainVars
  /\ UNCHANGED mqttVars
  /\ emitted' = e_idx
  /\ e_idx' = 0
  /\ UNCHANGED stored

\* ------------------------------------------------------------ specification
Next ==
  \/ OpenSerialOk
  \/ OpenSerialErr
  \/ SubscribeOk
  \/ SubscribeErr
  \/ PollConnAck
  \/ PollConnectErr
  \/ PollOutgoing
  \/ PollOther
  \/ \E topic \in Topics, payload \in Payloads : PollPublish(topic, payload)
  \/ IngestLock
  \/ IngestAssign
  \/ PollDisconnect
  \/ SleepSecond
  \/ Wake
  \/ EmitTick
  \/ EmitLock
  \/ EmitClone
  \/ EmitSerialLock
  \/ EmitWriteOk
  \/ EmitWriteErr

Spec == Init /\ [][Next]_vars

\* The runtime keeps running a task that can go on, and a tokio Mutex grants
\* its lock in the order of the requests: a task that asks again and again is
\* served.
FairSpec ==
  /\ Spec
  /\ WF_vars(IngestAssign) /\ WF_vars(EmitClone) /\ WF_vars(EmitSerialLock)
  /\ SF_vars(IngestLock) /\ SF_vars(EmitLock)

TypeOK ==
  /\ i_pc \in {"open_serial", "subscribe", "poll", "lock_store", "assign", "sleep", "exit"}
  /\ e_pc \in {"unspawned", "tick", "lock_store", "clone", "lock_serial", "write"}
  /\ i_sleep \in 0..BackoffSecs
  /\ conn \in {"Disconnected", "Connected"}
  /\ storeLock \in {Free, "ingest", "emit"}
  /\ serialLock \in {Free, "emit"}
  /\ Len(e_log) <= MaxWrites


\* ------------------------------------------------------------------- claims
Last(q) == q[Len(q)]

\* The text of a line, written out.
Line_152_3_201_0 == <<"1", "5", "2", ".", "3", ",", "2", "0", "1", ".", "0", "\n">>
Line_0_2_99_0 == <<"0", ".", "2", ",", "9", "9", ".", "0", "\n">>

\* The line the documentation gives for a record of the payloads above.
ExpectedLine(d) ==
  IF d.bean_temp = 15234 /\ d.env_temp = 20100 THEN Line_152_3_201_0
  ELSE IF d.bean_temp = 25 /\ d.env_temp = 9900 THEN Line_0_2_99_0
  ELSE <<>>

\* The main task has no decoded record waiting for the store.
NoStorePending == i_pc \notin {"lock_store", "assign"}

\* C1: last-write-wins.  Whenever no decoded record is still on its way to the
\* store, the store holds exactly the record of the last successful decode;
\* a snapshot read returns exactly the store's value and leaves it as it was.
C1_LastWriteWins ==
  /\ [](NoStorePending => store = lastOk)
  /\ [][EmitClone => (e_data' = store /\ store' = store)]_vars

\* Two records were stored one after the other, the first one was emitted, and
\* the snapshot now holds the second.
C1_Witness ==
  /\ serial = Line_152_3_201_0
  /\ NoStorePending /\ lastOk = Some(R2) /\ store = Some(R2)
  /\ e_data = Some(R2)

\* C2: after a disconnect and a reconnection the bridge holds exactly one
\* subscription again: whenever it is connected and has no request left to
\* send, the broker's session has one subscription to the telemetry topic (so
\* telemetry published then is delivered).
C2_ResubscribedAfterReconnect ==
  (conn = "Connected" /\ requests = <<>>) => brokerSubs = 1

\* C3: every step that enters Connected (a ConnAck) leaves a subscription
\* request for the telemetry topic, at most once, on its way to the broker.
C3_SubscribeOnEveryConnAck ==
  [][(conn = "Disconnected" /\ conn' = "Connected") =>
       \E k \in 1..Len(requests') :
         requests'[k] = [type |-> "Subscribe", topic |-> TelemetryTopic,
                         qos |-> "AtMostOnce"]]_vars

\* C4: handling a telemetry-topic message that does not decode leaves the
\* store, the pending record and the decode history as they were, and the loop
\* is back at poll.
C4_DecodeFailureNoOp ==
  [][\/ (store' = store /\ i_data' = i_data /\ lastOk' = lastOk /\ i_pc' = "poll"
          /\ storeLock' = storeLock)
      \/ \A p \in InvalidPayloads : ~PollPublish(TelemetryTopic, p)]_vars

\* A decode failure was just handled while the store held a record.
C4_Witness ==
  i_log = <<"rx", "parse_error">> /\ store = Some(R1) /\ i_pc = "poll"

\* C5: a message on another topic is not decoded (neither outcome of the
\* decode is logged, no record is produced) and the store is unchanged,
\* whatever its payload.
C5_OffTopicIgnored ==
  [][\/ (i_log' = <<"rx">> /\ store' = store /\ i_data' = i_data
          /\ lastOk' = lastOk /\ i_pc' = "poll")
      \/ \A p \in Payloads : ~PollPublish(OtherTopic, p)]_vars

\* An off-topic message was just handled while the store held a record.
C5_Witness ==
  i_log = <<"rx">> /\ i_pc = "poll" /\ store = Some(R2)

\* C6: while nothing has ever been decoded, the serial port has received
\* nothing and no write was attempted.
C6_NothingBeforeFirstDecode ==
  lastOk = None => (serial = <<>> /\ e_log = <<>> /\ e_pc \notin {"lock_serial", "write"})

\* A tick is reading the empty store, after a decode failure and nothing else.
C6_Witness ==
  /\ lastOk = None /\ e_pc = "clone" /\ store = None
  /\ i_log = <<"rx", "parse_error">>

\* C7: the snapshot of a tick is the store's value, the line of the tick is
\* the documented line of that snapshot, and a successful write appends
\* exactly that line to what the serial port received.
C7_TickWritesFrame ==
  /\ [](e_pc \in {"lock_serial", "write"} =>
          (e_data # None /\ e_line = ExpectedLine(e_data[1]) /\ e_line # <<>>))
  /\ [][EmitClone => e_data' = store]_vars
  /\ [][EmitWriteOk => serial' = serial \o ExpectedLine(e_data[1])]_vars

\* The example of the documentation: R1 was stored, nothing later, and the
\* tick wrote "152.3,201.0\n".
C7_Witness ==
  /\ lastOk = Some(R1) /\ store = Some(R1)
  /\ e_log = <<"sent">> /\ serial = Line_152_3_201_0

\* C8: a failed write releases the serial lock, keeps nothing and takes the
\* task to its next tick; the snapshot after a failure is the store's value
\* at that time.
C8_WriteFailureNotFatal ==
  /\ [][EmitWriteErr =>
          (e_pc' = "tick" /\ serialLock' = Free /\ storeLock' = storeLock
           /\ e_data' = None /\ e_line' = <<>>)]_vars
  /\ [][(e_log # <<>> /\ Last(e_log) = "write_error" /\ EmitClone) =>
          e_data' = store]_vars

\* A write failed, a newer record was stored, and the next tick's write of
\* the newer record's line succeeded.
C8_Witness ==
  /\ e_log = <<"write_error", "sent">>
  /\ serial = Line_0_2_99_0
  /\ store = Some(R2)

\* C9: the store, once filled, is never empty again; a tick that finds a
\* record goes on to write that record's line, connection or not.
C9_StoreNeverCleared ==
  /\ [][store # None => store' # None]_vars
  /\ [][(EmitClone /\ store # None) =>
          (e_pc' = "lock_serial" /\ e_line' = Frame(store[1]))]_vars
  /\ [](e_pc = "write" => (serialLock = "emit" /\ e_line # <<>>))

\* The connection is down, the main task sleeps, and a tick is writing the
\* line of the record stored before.
C9_Witness ==
  /\ conn = "Disconnected" /\ i_pc = "sleep" /\ i_sleep < BackoffSecs
  /\ store = Some(R1) /\ e_pc = "write" /\ e_line = Line_152_3_201_0
  /\ e_log = <<"sent">>

\* C10: every poll error starts a sleep of BackoffSecs seconds, the sleep ends
\* only when they have passed, and then the loop polls; once the loop runs the
\* main task never ends.
C10_FixedBackoffNoExit ==
  /\ [][(PollDisconnect \/ PollConnectErr) =>
          (i_pc' = "sleep" /\ i_sleep' = 5)]_vars
  /\ [][(i_pc = "sleep" /\ i_pc' # "sleep") => (i_sleep = 0 /\ i_pc' = "poll")]_vars
  /\ [](e_pc # "unspawned" => i_pc # "exit")

\* After two emitted lines the poll failed on a connection whose subscribe
\* had been sent: the main task is at the start of its 5 s sleep.
C10_Witness ==
  /\ i_pc = "sleep" /\ i_sleep = 5 /\ conn = "Disconnected"
  /\ requests = <<>> /\ store = Some(R1) /\ e_log = <<"sent", "sent">>


\* C11: a startup error ends main before either loop starts: in a run that
\* ended so, the emission task was never spawned, the event loop was never
\* polled (no connection, the subscribe request at most still queued), nothing
\* was decoded or stored, nothing reached the serial port, and nothing happens
\* afterwards.
C11_StartupErrorIsFatal ==
  /\ [](i_pc = "exit" =>
          (/\ i_log = <<"startup_error">>
           /\ e_pc = "unspawned" /\ e_log = <<>> /\ serial = <<>>
           /\ conn = "Disconnected" /\ brokerSubs = 0 /\ requests = <<>>
           /\ store = None /\ lastOk = None
           /\ storeLock = Free /\ serialLock = Free))
  /\ [][i_pc = "exit" => UNCHANGED vars]_vars
  /\ [][(i_log' = <<"startup_error">> /\ i_log # <<"startup_error">>) => i_pc' = "exit"]_vars

\* main has returned the startup error.
C11_Witness ==
  i_pc = "exit" /\ i_log = <<"startup_error">> /\ e_pc = "unspawned"

\* A record that agrees with d on the two temperatures and differs in the
\* eight other fields.
OtherFieldsChanged(d) ==
  [timestamp |-> d.timestamp + 7, bean_temp |-> d.bean_temp, env_temp |-> d.env_temp,
   rate_of_rise |-> d.rate_of_rise + 1, heater_pwm |-> (d.heater_pwm + 1) % 256,
   fan_pwm |-> (d.fan_pwm + 1) % 256, setpoint |-> d.setpoint + 50,
   control_mode |-> (d.control_mode + 1) % 256,
   heater_enable |-> 1 - (d.heater_enable % 2), uptime |-> d.uptime + 9]

\* The records the payloads decode to.
DecodedRecords == {Decode(p)[1] : p \in {q \in Payloads : Decode(q) # None}}

\* C12: the line of a tick is a function of bean_temp and env_temp alone: it
\* is the line of every record with the same two temperatures, whatever the
\* other eight fields are.
C12_LineDependsOnTempsOnly ==
  (e_pc \in {"lock_serial", "write"} /\ e_data # None) =>
     /\ Frame(OtherFieldsChanged(e_data[1])) = e_line
     /\ \A d \in DecodedRecords :
          (d.bean_temp = e_data[1].bean_temp /\ d.env_temp = e_data[1].env_temp)
             => Frame(d) = e_line
     /\ e_line = ExpectedLine(e_data[1])

\* The line of R1 was written, and the tick now writing holds R3, which has
\* R1's temperatures and other values elsewhere: the same line.
C12_Witness ==
  /\ serial = Line_152_3_201_0 /\ e_log = <<"sent">>
  /\ e_pc = "write" /\ e_data = Some(R3) /\ e_line = Line_152_3_201_0
  /\ R3.timestamp # R1.timestamp /\ R3.heater_pwm # R1.heater_pwm


\* The complete lines of the records the payloads decode to.
KnownLines == {Line_152_3_201_0, Line_0_2_99_0}

IsPrefix(a, b) == Len(a) <= Len(b) /\ SubSeq(b, 1, Len(a)) = a
Drop(q, n) == SubSeq(q, n + 1, Len(q))

\* q is a concatenation of complete lines.
RECURSIVE OnlyCompleteLines(_)
OnlyCompleteLines(q) ==
  \/ q = <<>>
  \/ \E l \in KnownLines : IsPrefix(l, q) /\ OnlyCompleteLines(Drop(q, Len(l)))

\* q is, attempt by attempt of log, a complete line for a write that
\* succeeded and a proper prefix of a line for a write that failed.
RECURSIVE ChunkPerAttempt(_, _)
ChunkPerAttempt(q, log) ==
  IF log = <<>> THEN q = <<>>
  ELSE IF Head(log) = "sent"
         THEN \E l \in KnownLines :
                IsPrefix(l, q) /\ ChunkPerAttempt(Drop(q, Len(l)), Tail(log))
         ELSE \E l \in KnownLines : \E n \in 0..(Len(l) - 1) :
                /\ IsPrefix(SubSeq(l, 1, n), q)
                /\ ChunkPerAttempt(Drop(q, n), Tail(log))

\* C13 as claimed: the bytes the serial port received are always a
\* concatenation of complete framed lines (a failed write leaves nothing).
C13_OnlyCompleteLinesReceived == OnlyCompleteLines(serial)

\* C13 as amended: each emission hands its whole line to one write_all; a
\* write that succeeds appends exactly one complete framed line, a write that
\* fails appends a proper prefix of its line (possibly nothing), so the bytes
\* received are, in order, one complete line per successful write and one
\* proper prefix per failed write.
C13_WholeLineOrProperPrefix ==
  /\ [](ChunkPerAttempt(serial, e_log))
  /\ [][EmitWriteOk => (e_line \in KnownLines /\ serial' = serial \o e_line)]_vars
  /\ [][EmitWriteErr =>
          (IsPrefix(serial, serial') /\ IsPrefix(Drop(serial', Len(serial)), e_line)
           /\ Len(serial') - Len(serial) < Len(e_line))]_vars

\* A failed write left the first byte of its line on the port and the next
\* write delivered a whole line after it.
C13_Witness ==
  /\ e_log = <<"write_error", "sent">>
  /\ serial = <<"1">> \o Line_152_3_201_0

\* C14: a tick makes one write attempt and then waits for the next tick with
\* no line and no snapshot kept, failed or not; a line to write only ever
\* comes from the snapshot just taken, and is that snapshot's frame.
C14_OneAttemptNoneKept ==
  /\ [][Len(e_log') > Len(e_log) =>
          (/\ e_pc = "write" /\ e_pc' = "tick"
           /\ Len(e_log') = Len(e_log) + 1
           /\ e_line' = <<>> /\ e_data' = None)]_vars
  /\ [][(e_pc' = "lock_serial" /\ e_pc # "lock_serial") =>
          (e_pc = "clone" /\ e_data' = store /\ e_line' = Frame(store[1]))]_vars
  /\ [][(e_pc' = "write" /\ e_pc # "write") =>
          (e_pc = "lock_serial" /\ e_line' = e_line /\ e_data' = e_data)]_vars
  /\ [](e_pc \in {"tick", "lock_store", "clone"} => (e_line = <<>> /\ e_data = None))

\* The write of R1's line failed after one byte, R2 was stored, and the next
\* tick is writing R2's line.
C14_Witness ==
  /\ e_log = <<"write_error">> /\ serial = <<"1">>
  /\ store = Some(R2) /\ e_pc = "write" /\ e_line = Line_0_2_99_0

\* C15: the emission task holds the store's lock only while it clones, never
\* while it waits for or holds the serial lock; the main task holds it only
\* for the assignment, never while it polls or sleeps.  So a store update that
\* waits during a serial write, and a snapshot that waits during a backoff,
\* wait for nobody.
C15_StoreLockHeldBriefly ==
  /\ (storeLock = "emit") <=> (e_pc = "clone")
  /\ (storeLock = "ingest") <=> (i_pc = "assign")
  /\ (e_pc \in {"lock_serial", "write"} \/ serialLock = "emit") => storeLock # "emit"
  /\ i_pc \in {"poll", "sleep"} => storeLock # "ingest"
  /\ (e_pc \in {"lock_serial", "write"} /\ i_pc = "lock_store") => ENABLED IngestLock
  /\ (i_pc \in {"poll", "sleep"} /\ e_pc = "lock_store") => ENABLED EmitLock

\* The main task assigns to the store while the emission task is in its
\* serial write.
C15_Witness ==
  /\ e_pc = "write" /\ serialLock = "emit"
  /\ i_pc = "assign" /\ storeLock = "ingest"

\* The records a successful decode can produce.
WholeRecords == {R1, R2, R3}

\* C16: the main task (assigning) and the emission task (cloning) are never
\* both inside the store's lock; the store and every snapshot are a whole
\* decoded record or empty; the serial lock is only ever held by the emission
\* task and changes only in its steps.
C16_MutualExclusion ==
  /\ [](~(i_pc = "assign" /\ e_pc = "clone"))
  /\ [](storeLock \in {Free, "ingest", "emit"} /\ serialLock \in {Free, "emit"})
  /\ [](store \in {None} \cup {Some(d) : d \in WholeRecords})
  /\ [](e_data \in {None} \cup {Some(d) : d \in WholeRecords})
  /\ [][e_data' # e_data => (e_data' = None \/ (e_data' = store /\ storeLock = "emit"))]_vars
  /\ [][store' # store => (storeLock = "ingest" /\ store' = i_data)]_vars
  /\ [][serialLock' # serialLock => (e_pc' # e_pc /\ UNCHANGED mainVars)]_vars

\* Both tasks want the store: the emission task is cloning under the lock
\* and the main task waits for it with a record.
C16_Witness ==
  /\ e_pc = "clone" /\ storeLock = "emit"
  /\ i_pc = "lock_store" /\ i_data = Some(R2) /\ store = Some(R1)


\* The step ends with the outcome of a decode in the log.
DecodeLogged == i_log' \in {<<"rx", "telemetry">>, <<"rx", "parse_error">>}

\* C17: the store, and the record on its way to it, is empty or a whole
\* decoded record; a telemetry-topic payload with one of the ten fields
\* missing or of the wrong type is a decode error: nothing of it is stored or
\* kept and the stored record is as before.
C17_OnlyWholeDecodedRecords ==
  /\ [](store \in {None} \cup {Some(d) : d \in WholeRecords})
  /\ [](i_data \in {None} \cup {Some(d) : d \in WholeRecords})
  /\ [](Cardinality(DamagedPayloads) = 20)
  /\ [][\/ (/\ i_log' = <<"rx", "parse_error">>
              /\ store' = store /\ i_data' = i_data /\ lastOk' = lastOk
              /\ i_pc' = "poll")
          \/ ~DecodeLogged
          \/ \A p \in DamagedPayloads : ~PollPublish(TelemetryTopic, p)]_vars

\* A decode error was just handled while the store held R3, whole.
C17_Witness ==
  /\ i_log = <<"rx", "parse_error">> /\ i_pc = "poll"
  /\ store = Some(R3) /\ lastOk = Some(R3)

\* Payloads with all ten fields present and numeric.
NumericPayloads == {P1, P2, P3} \cup OutOfRangePayloads

\* Every integer field of p is within the range of its type.
FitsTypes(p) ==
  /\ \A f \in {"heaterPWM", "fanPWM", "controlMode", "heaterEnable"} :
       p.fields[f].v \in 0..255
  /\ \A f \in {"timestamp", "uptime"} : p.fields[f].v >= 0

\* The handling of p ended in a decode and a record on its way to the store.
DecodedAndPending == i_log' = <<"rx", "telemetry">> /\ i_pc' = "lock_store"

\* C18 as claimed: every telemetry-topic payload with all ten fields present
\* and numeric is decoded and goes to the store, whatever the values.
C18_NoRangeValidation ==
  [][\A p \in NumericPayloads : PollPublish(TelemetryTopic, p) => DecodedAndPending]_vars

\* C18 as amended: the only ranges checked are those of the field types.  A
\* payload with all ten fields numeric is decoded, with its integer values as
\* they are, and stored when heaterPWM, fanPWM, controlMode and heaterEnable
\* are in [0,255] and timestamp and uptime are not negative (heaterEnable = 2
\* included); with a value outside its type it is a decode error and nothing
\* is stored.
C18_TypeRangesOnly ==
  /\ [][\A p \in NumericPayloads : (DecodeLogged /\ PollPublish(TelemetryTopic, p)) =>
          IF FitsTypes(p)
            THEN /\ DecodedAndPending
                 /\ i_data'[1].heater_pwm = p.fields["heaterPWM"].v
                 /\ i_data'[1].fan_pwm = p.fields["fanPWM"].v
                 /\ i_data'[1].control_mode = p.fields["controlMode"].v
                 /\ i_data'[1].heater_enable = p.fields["heaterEnable"].v
            ELSE /\ i_log' = <<"rx", "parse_error">>
                 /\ i_pc' = "poll" /\ i_data' = i_data /\ store' = store]_vars
  /\ [][IngestAssign => store' = i_data]_vars
  /\ [](store # None => store[1].heater_pwm \in 0..255 /\ store[1].fan_pwm \in 0..255
                        /\ store[1].control_mode \in 0..255
                        /\ store[1].heater_enable \in 0..255)

\* The record with heaterEnable = 2 is in the store, and a payload was just
\* refused.
C18_Witness ==
  /\ store = Some(R3) /\ R3.heater_enable = 2
  /\ i_log = <<"rx", "parse_error">> /\ i_pc = "poll"

\* Both loops are running.
Running == i_pc \in {"poll", "lock_store", "assign", "sleep"}

\* C19: no task waits for one lock while it holds the other; whoever holds a
\* lock can take the step that releases it; while the loops run some step is
\* always possible; and every lock that is asked for is granted.
C19_NoDeadlock ==
  /\ [](e_pc = "lock_serial" => storeLock # "emit")
  /\ [](e_pc = "lock_store" => serialLock # "emit")
  /\ [](i_pc = "lock_store" => storeLock # "ingest")
  /\ [](storeLock = "emit" => ENABLED EmitClone)
  /\ [](storeLock = "ingest" => ENABLED IngestAssign)
  /\ [](serialLock = "emit" => ENABLED (EmitWriteOk \/ EmitWriteErr))
  /\ [](Running => ENABLED (\/ PollConnAck \/ PollOther \/ SleepSecond \/ Wake
                            \/ IngestLock \/ IngestAssign
                            \/ EmitLock \/ EmitClone \/ EmitSerialLock
                            \/ EmitWriteOk))
  /\ (i_pc = "lock_store") ~> (i_pc = "assign")
  /\ (e_pc = "lock_store") ~> (e_pc = "clone")
  /\ (e_pc = "lock_serial") ~> (e_pc = "write")

\* The emission task asks for the store's lock while the main task holds it,
\* after a line was written.
C19_Witness ==
  /\ e_pc = "lock_store" /\ storeLock = "ingest" /\ i_pc = "assign"
  /\ e_log = <<"sent">>


\* C20: every write attempt is for a record that was stored before, the one
\* the store held when the tick took its snapshot, counted in the order of the
\* store writes, each of which puts the record just decoded in the store;
\* that count never decreases from one write attempt to the
\* next; a line written is the frame of that snapshot.  (So a record
\* overwritten before a snapshot is never emitted.)
C20_EmissionNeverGoesBack ==
  /\ [](emitted <= stored /\ e_idx <= stored)
  /\ [](e_log # <<>> => emitted >= 1)
  /\ [](e_pc \in {"lock_serial", "write"} => (e_idx >= 1 /\ e_idx >= emitted))
  /\ [][stored' # stored => (IngestAssign /\ stored' = stored + 1)]_vars
  /\ [][IngestAssign => (store' = i_data /\ store' # None)]_vars
  /\ [][(EmitClone /\ store # None) =>
          (stored >= 1 /\ e_idx' = stored /\ e_data' = store)]_vars
  /\ [][EmitWriteOk =>
          (/\ e_idx >= emitted /\ emitted' = e_idx
           /\ serial' = serial \o ExpectedLine(e_data[1]))]_vars
  /\ [][EmitWriteErr =>
          (/\ e_idx >= emitted /\ emitted' = e_idx
           /\ IsPrefix(Drop(serial', Len(serial)), ExpectedLine(e_data[1])))]_vars

\* Two records were stored and the first was overwritten before any tick read
\* it: both lines written are the second's (R2's).
C20_Witness ==
  /\ stored = 2 /\ emitted = 2 /\ store = Some(R2)
  /\ e_log = <<"sent", "sent">> /\ serial = Line_0_2_99_0 \o Line_0_2_99_0

\* R1 was emitted, then R2 stored and emitted: the count goes up.
C20_WitnessInOrder ==
  /\ stored = 2 /\ emitted = 2 /\ store = Some(R2)
  /\ serial = Line_152_3_201_0 \o Line_0_2_99_0

====
